---- MODULE Spec2Model ----
(***************************************************************************)
(* Inventory subsystem of qgame: the equip state machine, the item         *)
(* activity state machine and the pickup resolver (src/qgame/inventory.rs) *)
(* as scheduled by main (src/main.rs).                                     *)
(*                                                                         *)
(* Durations are in milliseconds.  Option::None is written None.           *)
(* Entity commands (spawn, despawn) are deferred: a system queues them and *)
(* they take effect when the schedule applies the buffers, after the last  *)
(* system of the chain.                                                    *)
(***************************************************************************)
EXTENDS Integers, Sequences, FiniteSets, TLC

VARIABLES
    inv,         \* inventory entity -> Inventory component
    items,       \* live item entity -> Item component
    pickups,     \* live ItemPickup entities
    delta,       \* time.delta() of the current tick
    cmds,        \* Commands queued and not yet applied
    next_ent,    \* next entity id the world reserves
    panicked,    \* a system hit unimplemented!()
    pc           \* the system that runs next

vars == <<inv, items, pickups, delta, cmds, next_ent, panicked, pc>>

\* ---------------------------------------------------------------- bounds
NumSlots == 3
NumPickups == 2
MaxEvents == 2
MaxDwells == 50

\* ------------------------------------------------------------- constants
None == -1

EQUIPPING_STATE == "equipping"
EQUIPPED_STATE == "equipped"
UNEQUIPPING_STATE == "unequipping"
UNEQUIPPED_STATE == "unequipped"
IDLE_STATE == "idle"
RELOAD_STATE == "reload"
FIRE_STATE == "fire"

DwellMillis == 2000

\* Duration::MAX, where the timers saturate: MaxDwells dwell times.
DurationMax == MaxDwells * DwellMillis

Slots == 0 .. (NumSlots - 1)

\* The lengths a frame can have: none, less than a dwell, several dwells, and
\* the largest Duration (a stall long enough to saturate the timers).
Deltas == {0, 1000, 5000, DurationMax}

PlayerEnt == <<"player", 1>>
OtherPlayerEnt == <<"player", 2>>
WorldEnt == <<"world", 0>>

PickupEnts == {<<"pickup", n>> : n \in 1 .. NumPickups}

ItemNameOf(pickup_ent) == IF pickup_ent[2] % 2 = 1 THEN "rifle" ELSE "pistol"

Min(S) == CHOOSE x \in S : \A y \in S : x <= y

\* ------------------------------------------------------------- durations
SaturatingAdd(a, b) == IF a + b > DurationMax THEN DurationMax ELSE a + b

SaturatingSub(a, b) == IF a < b THEN 0 ELSE a - b

\* ------------------------------------------------------------ components
DefaultInventory ==
    [equipped_slot |-> None,
     prev_equipped_slot |-> None,
     equip_state_name |-> UNEQUIPPED_STATE,
     equip_state_dur |-> 0,
     item_ents |-> [s \in Slots |-> None]]

NewItem(item_name, inv_ent, slot) ==
    [name |-> item_name,
     amount |-> 1,
     state_name |-> IDLE_STATE,
     state_dur |-> 0,
     inv_ent |-> inv_ent,
     inv_slot |-> slot]

\* ---------------------------------------------------------- slot allocator
\* The predicates handed to find_slot, as functions of whether the lookup
\* yielded an item.
IsSome == [item \in BOOLEAN |-> item]

IsNone == [item \in BOOLEAN |-> ~item]

\* item_query.get(item_ent).ok() is Some exactly for a live item entity; an
\* entity that is only reserved by a queued spawn is not found.
QueryGet(item_query, item_ent) == item_ent # None /\ item_ent \in DOMAIN item_query

FindSlot(self, item_query, predicate) ==
    LET hits == {s \in Slots : predicate[QueryGet(item_query, self.item_ents[s])]}
    IN  IF hits = {} THEN None ELSE Min(hits)

\* Faulty variant: the replacement is the last occupied slot.
FindReplacementLast(self, item_query) ==
    IF self.prev_equipped_slot = None
    THEN LET hits == {s \in Slots : QueryGet(item_query, self.item_ents[s])}
         IN  IF hits = {} THEN None ELSE CHOOSE s \in hits : \A t \in hits : t <= s
    ELSE self.prev_equipped_slot

\* Faulty variant: the previously equipped slot is ignored.
FindReplacementFirstOccupied(self, item_query) ==
    FindSlot(self, item_query, IsSome)

FindReplacement(self, item_query) ==
    IF self.prev_equipped_slot = None
    THEN FindSlot(self, item_query, IsSome)
    ELSE self.prev_equipped_slot

\* Faulty variant: the item already in the slot is not despawned.
SetItemKeepExisting(self, inv_ent, commands, item_name, slot) ==
    LET item_ent == commands.next
        s1 == IF self.equipped_slot = None
              THEN [self EXCEPT !.equipped_slot = slot,
                                !.equip_state_dur = 0,
                                !.equip_state_name = EQUIPPING_STATE]
              ELSE self
    IN  [self |-> [s1 EXCEPT !.item_ents[slot] = item_ent],
         commands |-> [queue |-> Append(commands.queue,
                                    [op |-> "spawn", ent |-> item_ent,
                                     item |-> NewItem(item_name, inv_ent, slot)]),
                       next |-> item_ent + 1]]

\* Faulty variant: the filled slot does not become the equipped slot.
SetItemNoAutoEquip(self, inv_ent, commands, item_name, slot) ==
    LET existing_item_ent == self.item_ents[slot]
        q1 == IF existing_item_ent # None
              THEN Append(commands.queue, [op |-> "despawn", ent |-> existing_item_ent])
              ELSE commands.queue
        item_ent == commands.next
        q2 == Append(q1, [op |-> "spawn", ent |-> item_ent,
                          item |-> NewItem(item_name, inv_ent, slot)])
    IN  [self |-> [self EXCEPT !.item_ents[slot] = item_ent],
         commands |-> [queue |-> q2, next |-> item_ent + 1]]

\* Faulty variant: an occupied slot keeps its item (the new one is merged into
\* it) instead of being replaced.
SetItemStack(self, inv_ent, commands, item_name, slot) ==
    IF self.item_ents[slot] # None
    THEN [self |-> self, commands |-> commands]
    ELSE SetItemNoAutoEquip(self, inv_ent, commands, item_name, slot)

\* commands = [queue, next]: the command queue and the entity allocator.
SetItem(self, inv_ent, commands, item_name, slot) ==
    LET existing_item_ent == self.item_ents[slot]
        q1 == IF existing_item_ent # None
              THEN Append(commands.queue, [op |-> "despawn", ent |-> existing_item_ent])
              ELSE commands.queue
        item_ent == commands.next
        q2 == Append(q1, [op |-> "spawn", ent |-> item_ent,
                          item |-> NewItem(item_name, inv_ent, slot)])
        s1 == IF self.equipped_slot = None
              THEN [self EXCEPT !.equipped_slot = slot,
                                !.equip_state_dur = 0,
                                !.equip_state_name = EQUIPPING_STATE]
              ELSE self
    IN  [self |-> [s1 EXCEPT !.item_ents[slot] = item_ent],
         commands |-> [queue |-> q2, next |-> item_ent + 1]]

\* Faulty variant: with no vacant slot the item replaces the one in slot 0.
InsertItemEvict(self, inv_ent, commands, item_query, item_name) ==
    LET open_slot == FindSlot(self, item_query, IsNone)
    IN  IF open_slot # None
        THEN SetItem(self, inv_ent, commands, item_name, open_slot)
        ELSE SetItem(self, inv_ent, commands, item_name, 0)

InsertItem(self, inv_ent, commands, item_query, item_name) ==
    LET open_slot == FindSlot(self, item_query, IsNone)
    IN  IF open_slot # None
        THEN SetItem(self, inv_ent, commands, item_name, open_slot)
        ELSE [self |-> self, commands |-> commands]

\* ------------------------------------------------------ equip state machine
\* Faulty variant: the wanted slot is not checked for an occupant.
HasValidWantedAnySlot(self, wanted) == wanted # None

HasValidWanted(self, wanted) == wanted # None /\ self.item_ents[wanted] # None

\* Faulty variant: a valid wanted slot is equipped directly, without unequipping.
HandleUnequipDirect(self, wanted) ==
    IF wanted # None /\ self.item_ents[wanted] # None /\ wanted # self.equipped_slot
           /\ self.equip_state_name # UNEQUIPPING_STATE
    THEN [self EXCEPT !.prev_equipped_slot = self.equipped_slot,
                      !.equipped_slot = wanted,
                      !.equip_state_name = EQUIPPING_STATE,
                      !.equip_state_dur = 0]
    ELSE self

\* Faulty variant: the unequip is forced by any wanted slot, occupied or not.
HandleUnequipAnyWanted(self, wanted) ==
    IF wanted # None /\ wanted # self.equipped_slot
           /\ self.equip_state_name # UNEQUIPPING_STATE
    THEN [self EXCEPT !.equip_state_name = UNEQUIPPING_STATE, !.equip_state_dur = 0]
    ELSE self

\* Faulty variant: a request restarts an unequip that is already running.
HandleUnequipRestart(self, wanted) ==
    IF HasValidWanted(self, wanted) /\ wanted # self.equipped_slot
    THEN [self EXCEPT !.equip_state_name = UNEQUIPPING_STATE, !.equip_state_dur = 0]
    ELSE self

HandleUnequip(self, wanted) ==
    LET is_alr_unequipping == self.equip_state_name = UNEQUIPPING_STATE
    IN  IF HasValidWanted(self, wanted) /\ wanted # self.equipped_slot /\ ~is_alr_unequipping
        THEN [self EXCEPT !.equip_state_name = UNEQUIPPING_STATE, !.equip_state_dur = 0]
        ELSE self

\* Faulty variant: a completed dwell in Equipped or Unequipped leads on to
\* Unequipped.
EquipTransitionExpire(state_name) ==
    CASE state_name = EQUIPPING_STATE -> EQUIPPED_STATE
      [] OTHER -> UNEQUIPPED_STATE

EquipTransition(state_name) ==
    CASE state_name = EQUIPPING_STATE -> EQUIPPED_STATE
      [] state_name = UNEQUIPPING_STATE -> UNEQUIPPED_STATE
      [] OTHER -> state_name

\* Faulty variant: at most one completed dwell is consumed per tick (if, not while).
FinishEquipOnce(self) ==
    IF self.equip_state_dur > DwellMillis
    THEN [self EXCEPT !.equip_state_name = EquipTransition(@),
                      !.equip_state_dur = SaturatingSub(@, DwellMillis)]
    ELSE self

RECURSIVE FinishEquip(_)
FinishEquip(self) ==
    IF self.equip_state_dur > DwellMillis
    THEN FinishEquip([self EXCEPT !.equip_state_name = EquipTransition(@),
                                  !.equip_state_dur = SaturatingSub(@, DwellMillis)])
    ELSE self

StartEquip(self, wanted, item_query) ==
    LET chosen == IF HasValidWanted(self, wanted)
                  THEN [self EXCEPT !.prev_equipped_slot = self.equipped_slot,
                                    !.equipped_slot = wanted]
                  ELSE [self EXCEPT !.equipped_slot = FindReplacement(self, item_query)]
    IN  [chosen EXCEPT !.equip_state_name = EQUIPPING_STATE]

\* The loop body for one inventory: the component afterwards, and whether the
\* body left the system with `return`.
EquipBody(self, wanted, dt, item_query) ==
    LET unequip == HandleUnequip(self, wanted)
        finished == FinishEquip([unequip EXCEPT
                        !.equip_state_dur = SaturatingAdd(@, dt)])
    IN  IF unequip.equipped_slot = None
        THEN [self |-> unequip, returned |-> TRUE]
        ELSE IF finished.equip_state_name # UNEQUIPPED_STATE
        THEN [self |-> finished, returned |-> TRUE]
        ELSE [self |-> StartEquip(finished, wanted, item_query), returned |-> FALSE]

\* for (input, mut inv) in inv_query.iter_mut(), in the order `order`; a
\* `return` in the body leaves the system, and the inventories not yet
\* visited are not updated.
RECURSIVE EquipIter(_, _, _, _, _)
EquipIter(invs, order, wanted, dt, item_query) ==
    IF order = <<>> THEN invs
    ELSE LET e == Head(order)
             r == EquipBody(invs[e], wanted[e], dt, item_query)
             upd == [invs EXCEPT ![e] = r.self]
         IN  IF r.returned THEN upd
             ELSE EquipIter(upd, Tail(order), wanted, dt, item_query)

Orders(S) == {o \in [1 .. Cardinality(S) -> S] : \A a, b \in DOMAIN o : a # b => o[a] # o[b]}

\* ------------------------------------------------------ item state machine
ItemTransition(state_name) ==
    IF state_name \in {IDLE_STATE, RELOAD_STATE, FIRE_STATE}
    THEN IDLE_STATE
    ELSE "unimplemented!"

\* Faulty variant: at most one completed dwell is consumed per tick.
FinishItemOnce(item) ==
    IF item.state_dur > DwellMillis /\ item.state_name # "unimplemented!"
    THEN [item EXCEPT !.state_name = ItemTransition(@),
                      !.state_dur = SaturatingSub(@, DwellMillis)]
    ELSE item

RECURSIVE FinishItem(_)
FinishItem(item) ==
    IF item.state_dur > DwellMillis /\ item.state_name # "unimplemented!"
    THEN IF ItemTransition(item.state_name) = "unimplemented!"
         THEN [item EXCEPT !.state_name = "unimplemented!"]
         ELSE FinishItem([item EXCEPT !.state_name = ItemTransition(@),
                                      !.state_dur = SaturatingSub(@, DwellMillis)])
    ELSE item

\* Faulty variant: every item is advanced, equipped or not.
ItemBodyAll(item, invs, dt) ==
    FinishItem([item EXCEPT !.state_dur = SaturatingAdd(@, dt)])

\* inv_query.get(item.inv_ent).unwrap() panics when the owner has no
\* Inventory component.
ItemBody(item, invs, dt) ==
    IF item.inv_ent \notin DOMAIN invs
    THEN [item EXCEPT !.state_name = "unwrap()"]
    ELSE LET is_equipped == invs[item.inv_ent].equipped_slot = item.inv_slot
         IN  IF is_equipped
             THEN FinishItem([item EXCEPT !.state_dur = SaturatingAdd(@, dt)])
             ELSE item

\* --------------------------------------------------------- pickup resolver
\* Faulty variant: only the first entity of an event is tried as the pickup.
ResolveEventFirstOnly(ent1, ent2, invs, commands, item_query, pickup_query) ==
    IF ent1 \in pickup_query /\ ent2 \in DOMAIN invs
    THEN LET r == InsertItem(invs[ent2], ent2, commands, item_query, ItemNameOf(ent1))
         IN  [invs |-> [invs EXCEPT ![ent2] = r.self],
              commands |-> [r.commands EXCEPT !.queue =
                  Append(@, [op |-> "despawn_recursive", ent |-> ent1])]]
    ELSE [invs |-> invs, commands |-> commands]

\* One iteration of the loop over the intersection events.
ResolveEvent(ent1, ent2, invs, commands, item_query, pickup_query) ==
    LET fst == ent1 \in pickup_query /\ ent2 \in DOMAIN invs
        snd == ent2 \in pickup_query /\ ent1 \in DOMAIN invs
        pickup_ent == IF fst THEN ent1 ELSE ent2
        player_ent == IF fst THEN ent2 ELSE ent1
    IN  IF fst \/ snd
        THEN LET r == InsertItem(invs[player_ent], player_ent, commands,
                                 item_query, ItemNameOf(pickup_ent))
             IN  [invs |-> [invs EXCEPT ![player_ent] = r.self],
                  commands |-> [r.commands EXCEPT !.queue =
                      Append(@, [op |-> "despawn_recursive", ent |-> pickup_ent])]]
        ELSE [invs |-> invs, commands |-> commands]

\* ------------------------------------------------------- deferred commands
ApplyCommand(world, c) ==
    CASE c.op = "spawn" ->
           [world EXCEPT !.items = (c.ent :> c.item) @@ world.items]
      [] c.op = "despawn" ->
           [world EXCEPT !.items = [e \in (DOMAIN world.items) \ {c.ent} |-> world.items[e]]]
      [] c.op = "despawn_recursive" ->
           [world EXCEPT !.pickups = world.pickups \ {c.ent}]

RECURSIVE ApplyQueue(_, _)
ApplyQueue(world, queue) ==
    IF queue = <<>> THEN world
    ELSE ApplyQueue(ApplyCommand(world, Head(queue)), Tail(queue))

\* ----------------------------------------------------------------- schedule
\* Faulty variant: the pickup resolver is chained first.
LogicChainPickupFirst == <<"pickup", "equip", "item">>

\* (modify_equip_state_sys, modify_item_sys, item_pickup_sys).chain()
LogicChain == <<"equip", "item", "pickup">>

SysAfter(sys) ==
    LET i == CHOOSE k \in DOMAIN LogicChain : LogicChain[k] = sys
    IN  IF i = Len(LogicChain) THEN "apply" ELSE LogicChain[i + 1]

\* --------------------------------------------------------------------- Init
\* An inventory on which set_item was called for the slots `filled` (lowest
\* slot first) and whose spawn commands were applied: item entity k sits in
\* the k-th filled slot.  With filled = {} it is Inventory::default().
Rank(filled, s) == Cardinality({t \in filled : t <= s})

BuiltInventory(filled) ==
    IF filled = {} THEN DefaultInventory
    ELSE [equipped_slot |-> Min(filled),
          prev_equipped_slot |-> None,
          equip_state_name |-> EQUIPPING_STATE,
          equip_state_dur |-> 0,
          item_ents |-> [s \in Slots |-> IF s \in filled THEN Rank(filled, s) ELSE None]]

BuiltItems(inv_ent, filled) ==
    [k \in 1 .. Cardinality(filled) |->
        NewItem(IF k % 2 = 1 THEN "rifle" ELSE "pistol", inv_ent,
                CHOOSE s \in filled : Rank(filled, s) = k)]

InitWorld(inv_ents, filled, live_pickups) ==
    /\ inv = [e \in inv_ents |-> IF e = PlayerEnt THEN BuiltInventory(filled)
                                 ELSE DefaultInventory]
    /\ items = BuiltItems(PlayerEnt, filled)
    /\ pickups = live_pickups
    /\ delta = 0
    /\ cmds = <<>>
    /\ next_ent = Cardinality(filled) + 1
    /\ panicked = FALSE
    /\ pc = "time"

\* spawn_player_sys: one player with Inventory::default().
Init == InitWorld({PlayerEnt}, {}, PickupEnts)

\* Two controllable entities: the player, who holds one item in slot 0, and
\* a second one with Inventory::default(); one pickup lies in the world.
InitMulti == InitWorld({PlayerEnt, OtherPlayerEnt}, {0}, {<<"pickup", 1>>})

\* The player's inventory after k earlier pickups, k = 0 .. NumSlots.
InitFilled == \E k \in 0 .. NumSlots : InitWorld({PlayerEnt}, 0 .. (k - 1), PickupEnts)

\* The player's inventory after NumSlots earlier pickups: every slot holds a
\* live item.
InitFull == InitWorld({PlayerEnt}, Slots, PickupEnts)

\* State tags are strings (EquipStateName, ItemStateName) and the components'
\* fields are public: besides the tags the systems match on, a component can
\* carry any other tag.  One such tag stands for them in each machine.
EquipTags == {EQUIPPING_STATE, EQUIPPED_STATE, UNEQUIPPING_STATE, "holstered"}

ItemTags == {IDLE_STATE, RELOAD_STATE, FIRE_STATE, "inspect"}

\* The player holds two items, slot 0 equipped; the equip state tag and the
\* activity state tag of the item in slot 0 are any tag, and both timers are
\* at zero or at 1500ms.
InitTags ==
    \E equip_tag \in EquipTags, item_tag \in ItemTags, dur \in {0, 1500} :
        /\ inv = [e \in {PlayerEnt} |->
                     [BuiltInventory({0, 1}) EXCEPT !.equip_state_name = equip_tag,
                                                    !.equip_state_dur = dur]]
        /\ items = [BuiltItems(PlayerEnt, {0, 1}) EXCEPT ![1].state_name = item_tag,
                                                         ![1].state_dur = dur]
        /\ pickups = {<<"pickup", 1>>}
        /\ delta = 0
        /\ cmds = <<>>
        /\ next_ent = 3
        /\ panicked = FALSE
        /\ pc = "time"

\* A second entity owns the item in its slot 0; that entity either still has
\* its Inventory component or no longer has one (the item then refers to an
\* owner that cannot be looked up).  The player has Inventory::default().
InitOrphan ==
    \E owner_live \in BOOLEAN :
        /\ inv = [e \in {PlayerEnt} \cup (IF owner_live THEN {OtherPlayerEnt} ELSE {}) |->
                     IF e = OtherPlayerEnt THEN BuiltInventory({0}) ELSE DefaultInventory]
        /\ items = BuiltItems(OtherPlayerEnt, {0})
        /\ pickups = {<<"pickup", 1>>}
        /\ delta = 0
        /\ cmds = <<>>
        /\ next_ent = 2
        /\ panicked = FALSE
        /\ pc = "time"

\* The player's inventory built by set_item on any set of slots, in a world
\* without pickups.
InitBuilt == \E filled \in SUBSET Slots : InitWorld({PlayerEnt}, filled, {})

\* ------------------------------------------------------------------ actions
\* Before the logic chain: the clock advances by the length of the frame.
TimeSys ==
    /\ pc = "time" /\ ~panicked
    /\ \E dt \in Deltas : delta' = dt
    /\ pc' = LogicChain[1]
    /\ UNCHANGED <<inv, items, pickups, cmds, next_ent, panicked>>

\* The wanted slot of each PlayerInput is whatever the input system computed
\* for this tick; the query iterates the inventories in some order.
WantedInputs == [DOMAIN inv -> Slots \cup {None}]

ModifyEquipStateSys ==
    /\ pc = "equip" /\ ~panicked
    /\ \E wanted \in WantedInputs, order \in Orders(DOMAIN inv) :
           inv' = EquipIter(inv, order, wanted, delta, items)
    /\ pc' = SysAfter("equip")
    /\ UNCHANGED <<items, pickups, delta, cmds, next_ent, panicked>>

ModifyItemSys ==
    /\ pc = "item" /\ ~panicked
    /\ LET after == [e \in DOMAIN items |-> ItemBody(items[e], inv, delta)]
       IN  /\ panicked' = (\E e \in DOMAIN after :
                             after[e].state_name \in {"unimplemented!", "unwrap()"})
           /\ items' = after
    /\ pc' = SysAfter("item")
    /\ UNCHANGED <<inv, pickups, delta, cmds, next_ent>>

Colliders == DOMAIN inv \cup PickupEnts \cup {WorldEnt}

\* Pickups resolved so far in this tick: each queued one despawn_recursive.
Resolved(queue) == Cardinality({k \in DOMAIN queue : queue[k].op = "despawn_recursive"})

\* item_pickup_sys reads the next intersection event of the tick.
ItemPickupSys ==
    /\ pc = "pickup" /\ ~panicked
    /\ Resolved(cmds) < MaxEvents
    /\ \E ent1, ent2 \in Colliders :
         /\ ent1 # ent2
         /\ LET r == ResolveEvent(ent1, ent2, inv, [queue |-> cmds, next |-> next_ent],
                                  items, pickups)
            IN  /\ inv' = r.invs
                /\ cmds' = r.commands.queue
                /\ next_ent' = r.commands.next
    /\ UNCHANGED <<items, pickups, delta, panicked, pc>>

\* item_pickup_sys has read every event of the tick.
ItemPickupSysEnd ==
    /\ pc = "pickup" /\ ~panicked
    /\ pc' = SysAfter("pickup")
    /\ UNCHANGED <<inv, items, pickups, delta, cmds, next_ent, panicked>>

\* The schedule applies the queued commands after the chain.
ApplyBuffers ==
    /\ pc = "apply" /\ ~panicked
    /\ LET w == ApplyQueue([items |-> items, pickups |-> pickups], cmds)
       IN  /\ items' = w.items
           /\ pickups' = w.pickups
    /\ cmds' = <<>>
    /\ pc' = "time"
    /\ UNCHANGED <<inv, delta, next_ent, panicked>>

Next ==
    \/ TimeSys
    \/ ModifyEquipStateSys
    \/ ModifyItemSys
    \/ ItemPickupSys
    \/ ItemPickupSysEnd
    \/ ApplyBuffers

Spec == Init /\ [][Next]_vars

SpecMulti == InitMulti /\ [][Next]_vars

SpecFilled == InitFilled /\ [][Next]_vars

SpecBuilt == InitBuilt /\ [][Next]_vars

SpecFull == InitFull /\ [][Next]_vars

SpecTags == InitTags /\ [][Next]_vars

SpecOrphan == InitOrphan /\ [][Next]_vars

\* ------------------------------------------------------ a held slot request
\* The slot the player keeps requesting (PlayerInput::wanted_item_slot).
HeldSlot == 1

\* The player holds items in slots 0 and 1 with slot 0 equipped, at any point
\* of drawing it, holding it or putting it away; one pickup lies in the world.
InitHeld ==
    \E state_name \in {EQUIPPING_STATE, EQUIPPED_STATE, UNEQUIPPING_STATE},
       dur \in {0, 1000, DwellMillis} :
        /\ inv = [e \in {PlayerEnt} |->
                     [BuiltInventory({0, 1}) EXCEPT !.equip_state_name = state_name,
                                                    !.equip_state_dur = dur]]
        /\ items = BuiltItems(PlayerEnt, {0, 1})
        /\ pickups = {<<"pickup", 1>>}
        /\ delta = 0
        /\ cmds = <<>>
        /\ next_ent = 3
        /\ panicked = FALSE
        /\ pc = "time"

\* modify_equip_state_sys in a tick in which the wanted slot is HeldSlot.
ModifyEquipStateSysHeld ==
    /\ pc = "equip" /\ ~panicked
    /\ \E order \in Orders(DOMAIN inv) :
           inv' = EquipIter(inv, order, [e \in DOMAIN inv |-> HeldSlot], delta, items)
    /\ pc' = SysAfter("equip")
    /\ UNCHANGED <<items, pickups, delta, cmds, next_ent, panicked>>

NextHeld ==
    \/ TimeSys
    \/ ModifyEquipStateSysHeld
    \/ ModifyItemSys
    \/ ItemPickupSys
    \/ ItemPickupSysEnd
    \/ ApplyBuffers

\* The schedule runs every system of the chain in every frame, and frames of
\* positive length keep occurring.
FairHeld ==
    /\ SF_vars(TimeSys /\ delta' > 0)
    /\ WF_vars(ModifyEquipStateSysHeld)
    /\ WF_vars(ModifyItemSys)
    /\ WF_vars(ItemPickupSysEnd)
    /\ WF_vars(ApplyBuffers)

SpecHeld == InitHeld /\ [][NextHeld]_vars /\ FairHeld

\* ------------------------------------------------------------ claim helpers
InvEnts == DOMAIN inv

Spawns(queue) == {k \in DOMAIN queue : queue[k].op = "spawn"}

OwnedItems(e) == {i \in DOMAIN items : items[i].inv_ent = e}

\* C1: whenever an inventory's equipped_slot is set, it names one of the
\* inventory's slots and that slot is occupied; once the queued commands are
\* applied the occupant is a live item bound to that slot.
C1_EquippedSlotOccupied ==
    \A e \in InvEnts :
        inv[e].equipped_slot # None =>
            /\ inv[e].equipped_slot \in Slots
            /\ inv[e].item_ents[inv[e].equipped_slot] # None
            /\ cmds = <<>> =>
                 /\ inv[e].item_ents[inv[e].equipped_slot] \in DOMAIN items
                 /\ items[inv[e].item_ents[inv[e].equipped_slot]].inv_slot
                        = inv[e].equipped_slot

\* An equip tick moved the equipped slot from slot 0 to slot 1.
C1_Witness ==
    /\ pc = "item"
    /\ inv[PlayerEnt].equipped_slot = 1
    /\ inv[PlayerEnt].prev_equipped_slot = 0

\* C2: an inventory with no equipped slot is in state Unequipped.
C2_NoSlotImpliesUnequipped ==
    \A e \in InvEnts :
        inv[e].equipped_slot = None => inv[e].equip_state_name = UNEQUIPPED_STATE

\* A whole tick of positive length (equip update, pickup resolver, commands
\* applied) ran on an inventory that still has no equipped slot.
C2_Witness ==
    /\ pc = "time"
    /\ delta > 0
    /\ inv[PlayerEnt].equipped_slot = None

\* C3: every live item is the occupant of its owner's slot item.inv_slot.
C3_BackReference ==
    \A i \in DOMAIN items :
        /\ items[i].inv_ent \in InvEnts
        /\ inv[items[i].inv_ent].item_ents[items[i].inv_slot] = i

\* Two pickups were resolved into the same slot in one tick: the first item
\* (entity 1) was replaced by the second (entity 2), and the commands were
\* applied.
C3_Witness ==
    /\ pc = "time"
    /\ next_ent = 3
    /\ DOMAIN items = {2}
    /\ inv[PlayerEnt].item_ents[0] = 2

\* Slots 0 and 2 occupied, slot 1 vacant, slot 0 equipped, no previous slot,
\* and the equip system is about to complete the Unequipping dwell.
C4Case(e) ==
    /\ pc = "equip"
    /\ inv[e].item_ents[0] # None
    /\ inv[e].item_ents[1] = None
    /\ inv[e].item_ents[2] # None
    /\ inv[e].equipped_slot = 0
    /\ inv[e].prev_equipped_slot = None
    /\ inv[e].equip_state_name = UNEQUIPPING_STATE
    /\ SaturatingAdd(inv[e].equip_state_dur, delta) > DwellMillis

NoWanted == [e \in InvEnts |-> None]

\* C4 as stated: in that case an equip tick without a wanted slot selects
\* slot 2 as the new equipped slot.
C4_Original ==
    \A e \in InvEnts :
        C4Case(e) =>
            EquipIter(inv, <<e>>, NoWanted, delta, items)[e].equipped_slot = 2

\* C4 (amended): in that case the equip machine selects slot 0 again, the
\* first occupied slot in index order, and enters Equipping; it selects
\* neither the vacant slot 1 nor slot 2.
C4_ReplacementIsFirstOccupied ==
    \A e \in InvEnts :
        C4Case(e) =>
            LET after == EquipIter(inv, <<e>>, NoWanted, delta, items)[e]
            IN  /\ after.equipped_slot = 0
                /\ after.equip_state_name = EQUIPPING_STATE
                /\ after.item_ents = inv[e].item_ents

\* The equip system is about to complete the Unequipping dwell of such an
\* inventory.
C4_Witness == C4Case(PlayerEnt)

\* The three parts of C5 for one inventory and one tick follow; C5 itself is
\* stated after them.
\* (a) a tick whose wanted slot w is populated and differs from the
\* equipped slot, arriving in Equipping or Equipped, puts the machine into
\* Unequipping with elapsed 0 before the timer runs: the tick ends in
\* Unequipping on the old slot when the tick is no longer than the dwell, and
\* otherwise the Unequipping dwell completes in the tick and the machine ends
\* in Equipping on w with the old slot as previous slot.  (b) the equipped
\* slot changes from one slot to a different one only in an equip tick in
\* which the machine was in Unequipping and that dwell completed; a pickup
\* never changes a set equipped slot.
C5_Interrupt(e, wanted, after) ==
    LET w == wanted[e]
        before == inv[e]
    IN  (/\ before.equip_state_name \in {EQUIPPING_STATE, EQUIPPED_STATE}
         /\ w # None
         /\ before.item_ents[w] # None
         /\ w # before.equipped_slot)
        => IF delta > DwellMillis
           THEN /\ after.equip_state_name = EQUIPPING_STATE
                /\ after.equipped_slot = w
                /\ after.prev_equipped_slot = before.equipped_slot
           ELSE /\ after.equip_state_name = UNEQUIPPING_STATE
                /\ after.equip_state_dur = delta
                /\ after.equipped_slot = before.equipped_slot

C5_NoDirectSwitch(e, wanted, after) ==
    LET before == inv[e]
        unequipping == IF before.equip_state_name = UNEQUIPPING_STATE
                       THEN before.equip_state_dur
                       ELSE IF wanted[e] # None /\ wanted[e] # before.equipped_slot
                                   /\ before.item_ents[wanted[e]] # None
                       THEN 0
                       ELSE None
    IN  (before.equipped_slot # None /\ after.equipped_slot # before.equipped_slot)
        => /\ unequipping # None
           /\ unequipping + delta > DwellMillis

C5_PickupKeepsSlot ==
    \A e \in InvEnts, ent1, ent2 \in Colliders :
        inv[e].equipped_slot # None =>
            ResolveEvent(ent1, ent2, inv, [queue |-> cmds, next |-> next_ent],
                         items, pickups).invs[e].equipped_slot = inv[e].equipped_slot

\* C5: interrupt policy.  In every equip tick, for every wanted input and
\* iteration order, (a) a populated wanted slot other than the equipped one
\* arriving in Equipping or Equipped forces Unequipping in that tick, and (b)
\* the equipped slot moves to another slot only if the Unequipping dwell
\* completed in that tick; resolving a pickup never moves a set equipped slot.
C5_InterruptPolicy ==
    /\ pc = "equip" =>
         \A wanted \in WantedInputs, order \in Orders(InvEnts) :
             LET after == EquipIter(inv, order, wanted, delta, items)
             IN  \A e \in InvEnts : /\ C5_Interrupt(e, wanted, after[e])
                                    /\ C5_NoDirectSwitch(e, wanted, after[e])
    /\ pc = "pickup" => C5_PickupKeepsSlot

\* The equip system has forced Unequipping on a wanted-slot request and the
\* Unequipping timer holds this tick's delta.
C5_Witness ==
    /\ pc = "item"
    /\ inv[PlayerEnt].equip_state_name = UNEQUIPPING_STATE
    /\ inv[PlayerEnt].equip_state_dur = delta
    /\ delta > 0
    /\ inv[PlayerEnt].prev_equipped_slot = None

\* The wanted slot asks for no change of slot.
NoChangeWanted(self, w) == w = None \/ self.item_ents[w] = None \/ w = self.equipped_slot

C6Case(e) ==
    /\ pc = "equip"
    /\ inv[e].equip_state_name = EQUIPPING_STATE
    /\ inv[e].equip_state_dur = 0
    /\ inv[e].equipped_slot # None
    /\ delta > DwellMillis

\* C6: an equip tick longer than the dwell (2000ms) that starts in Equipping
\* with elapsed 0, an equipped slot and no slot change requested ends in
\* Equipped; a tick of 5000ms ends in Equipped with elapsed 1000ms.
C6_DwellCatchUp ==
    \A e \in InvEnts :
        C6Case(e) =>
            \A wanted \in WantedInputs, order \in Orders(InvEnts) :
                NoChangeWanted(inv[e], wanted[e]) =>
                    LET after == EquipIter(inv, order, wanted, delta, items)[e]
                    IN  /\ after.equip_state_name = EQUIPPED_STATE
                        /\ after.equipped_slot = inv[e].equipped_slot
                        /\ delta = 5000 => after.equip_state_dur = 1000

\* The equip system is about to run a 5000ms tick on a freshly equipped slot.
C6_Witness == C6Case(PlayerEnt) /\ delta = 5000

\* The pickup entities resolved by the commands of a queue.
ResolvedPickups(queue) ==
    {queue[k].ent : k \in {j \in DOMAIN queue : queue[j].op = "despawn_recursive"}}

\* C7 as stated: resolving the same (pickup, inventory owner) event twice
\* creates exactly one Item Record for that pickup, the second resolution
\* inserting nothing: the commands queued in a tick never hold more spawns
\* than distinct pickups resolved in it.
C7_ResolvedOnce ==
    Cardinality(Spawns(cmds)) <= Cardinality(ResolvedPickups(cmds))

\* The first spawn command of a queue.
FirstSpawn(queue) == queue[CHOOSE k \in Spawns(queue) : \A j \in Spawns(queue) : k <= j]

\* Two different pickups were resolved in this tick for an inventory that had
\* exactly one vacant slot when the tick began.
C8Case(e) ==
    /\ pc = "apply"
    /\ Cardinality(OwnedItems(e)) = NumSlots - 1
    /\ Resolved(cmds) = 2
    /\ Cardinality(ResolvedPickups(cmds)) = 2

\* C8 as stated: in that case only the first pickup's item is created and
\* the slot holds it; the second pickup's item is dropped.
C8_FirstPickupWins ==
    \A e \in InvEnts :
        C8Case(e) =>
            /\ Cardinality(Spawns(cmds)) = 1
            /\ \E s \in Slots : inv[e].item_ents[s] = FirstSpawn(cmds).ent

\* The systems of the tick have run and a pickup of this tick put the first
\* item into inventory e, which auto-equipped it.
AutoEquippedThisTick(e) ==
    /\ pc = "apply"
    /\ OwnedItems(e) = {}
    /\ \E k \in Spawns(cmds) : cmds[k].item.inv_ent = e

\* C9 as stated: the pickup resolver runs before the equip update of the same
\* tick, so the equip timer of an item that a pickup auto-equipped in a tick
\* of positive length has advanced when the tick's systems have run.
C9_Original ==
    \A e \in InvEnts :
        (AutoEquippedThisTick(e) /\ delta > 0) => inv[e].equip_state_dur > 0

\* C9 (amended): the order within a tick is equip update, item activity
\* update, pickup resolver: no pickup of the tick has been resolved when the
\* equip or the item update runs, and an item that a pickup auto-equips in
\* tick t is still in Equipping with elapsed 0 at the end of tick t (its timer
\* first advances in tick t+1).
C9_PickupResolvedLast ==
    /\ pc \in {"equip", "item"} => cmds = <<>>
    /\ \A e \in InvEnts :
           AutoEquippedThisTick(e) =>
               /\ inv[e].equip_state_name = EQUIPPING_STATE
               /\ inv[e].equip_state_dur = 0

\* A pickup auto-equipped an item in a tick of 1000ms.
C9_Witness == AutoEquippedThisTick(PlayerEnt) /\ delta = 1000

\* C10 as stated: in an equip tick every inventory with an equipped slot gets
\* the equip update applied, whatever the other inventories' states and the
\* iteration order.
C10_Independent ==
    pc = "equip" =>
        \A wanted \in WantedInputs, order \in Orders(InvEnts) :
            \A e \in InvEnts :
                inv[e].equipped_slot # None =>
                    EquipIter(inv, order, wanted, delta, items)[e]
                        = EquipBody(inv[e], wanted[e], delta, items).self


\* The command queue and entity allocator the pickup resolver works on.
CurCommands == [queue |-> cmds, next |-> next_ent]

\* C11: auto-equip on first pickup.  Resolving a pickup for an inventory with
\* every slot empty and no equipped slot puts the new item into slot 0 (one
\* spawn of an idle item named after the pickup, bound to the inventory and
\* slot 0, is queued) and leaves equipped_slot = 0, Equipping, elapsed 0; and
\* set_item on any slot of an inventory with no equipped slot makes that slot
\* the equipped slot in Equipping with elapsed 0.
C11_AutoEquip ==
    pc = "pickup" =>
        \A e \in InvEnts :
            inv[e].equipped_slot = None =>
                /\ \A p \in pickups, flip \in BOOLEAN :
                       (\A s \in Slots : inv[e].item_ents[s] = None) =>
                           LET r == IF flip
                                    THEN ResolveEvent(e, p, inv, CurCommands, items, pickups)
                                    ELSE ResolveEvent(p, e, inv, CurCommands, items, pickups)
                               after == r.invs[e]
                           IN  /\ after.item_ents[0] = next_ent
                               /\ \A s \in Slots \ {0} : after.item_ents[s] = None
                               /\ after.equipped_slot = 0
                               /\ after.equip_state_name = EQUIPPING_STATE
                               /\ after.equip_state_dur = 0
                               /\ \E k \in Spawns(r.commands.queue) :
                                      /\ r.commands.queue[k].ent = next_ent
                                      /\ r.commands.queue[k].item.name = ItemNameOf(p)
                                      /\ r.commands.queue[k].item.inv_ent = e
                                      /\ r.commands.queue[k].item.inv_slot = 0
                                      /\ r.commands.queue[k].item.state_name = IDLE_STATE
                /\ \A slot \in Slots :
                       LET after == SetItem(inv[e], e, CurCommands, "rifle", slot).self
                       IN  /\ after.equipped_slot = slot
                           /\ after.item_ents[slot] = next_ent
                           /\ after.equip_state_name = EQUIPPING_STATE
                           /\ after.equip_state_dur = 0

\* The first event of a tick resolved the rifle pickup for the empty
\* inventory: its spawn is queued and slot 0 is being equipped.
C11_Witness ==
    /\ pc = "pickup"
    /\ items = <<>>
    /\ Len(cmds) = 2
    /\ cmds[1].op = "spawn"
    /\ cmds[1].item.name = "rifle"
    /\ inv[PlayerEnt].item_ents[0] = cmds[1].ent
    /\ inv[PlayerEnt].equipped_slot = 0
    /\ inv[PlayerEnt].equip_state_name = EQUIPPING_STATE


\* Every slot of inventory e holds a live item.
FullOfLiveItems(e) == \A s \in Slots : inv[e].item_ents[s] \in DOMAIN items

\* C12: allocation exhaustion.  Resolving a pickup for an inventory whose
\* slots are all occupied by live items changes no field of the inventory
\* and queues nothing but the destruction of the pickup: once the commands are
\* applied the pickup is gone and no item was created or destroyed; no error
\* is raised.
C12_FullInventoryDropsPickup ==
    pc = "pickup" =>
        \A e \in InvEnts, p \in pickups, flip \in BOOLEAN :
            FullOfLiveItems(e) =>
                LET r == IF flip
                         THEN ResolveEvent(e, p, inv, CurCommands, items, pickups)
                         ELSE ResolveEvent(p, e, inv, CurCommands, items, pickups)
                    world == [items |-> items, pickups |-> pickups]
                IN  /\ r.invs[e] = inv[e]
                    /\ r.commands.next = next_ent
                    /\ r.commands.queue
                           = Append(cmds, [op |-> "despawn_recursive", ent |-> p])
                    /\ ApplyQueue(world, r.commands.queue).items
                           = ApplyQueue(world, cmds).items
                    /\ p \notin ApplyQueue(world, r.commands.queue).pickups
                    /\ ~panicked

\* A pickup was resolved for a full inventory in this tick: its destruction
\* is queued and no item is spawned or despawned.
C12_Witness ==
    /\ pc = "apply"
    /\ FullOfLiveItems(PlayerEnt)
    /\ Len(cmds) = 1
    /\ cmds[1].op = "despawn_recursive"
    /\ ~panicked


\* Item i sits in the slot its owner has equipped.
IsEquippedItem(i) ==
    /\ items[i].inv_ent \in InvEnts
    /\ inv[items[i].inv_ent].equipped_slot = items[i].inv_slot

\* C13 as stated: a tick that updates an inventory (with an equipped slot)
\* whose equip state tag is none of Unequipped, Equipping, Equipped,
\* Unequipping, or an equipped item whose activity state tag is none of Idle,
\* Reload, Fire, fails fatally in that tick: once the equip update ran on
\* such an inventory, or the activity update on such an item, the tick has
\* failed.
C13_UnmodeledTagsFatal ==
    /\ (/\ pc = "item"
        /\ \E e \in InvEnts :
               /\ inv[e].equipped_slot # None
               /\ inv[e].equip_state_name \notin
                      {UNEQUIPPED_STATE, EQUIPPING_STATE, EQUIPPED_STATE, UNEQUIPPING_STATE})
       => panicked
    /\ (/\ pc = "pickup"
        /\ \E i \in DOMAIN items :
               /\ IsEquippedItem(i)
               /\ items[i].state_name \notin {IDLE_STATE, RELOAD_STATE, FIRE_STATE})
       => panicked


\* C14: in every activity tick only the item in its owner's equipped slot is
\* touched.  Every other item keeps its activity state and elapsed time; an
\* equipped item (with one of the tags Idle, Reload, Fire) whose dwell does
\* not complete keeps its state and has the tick's delta added, and one whose
\* dwell completes is in Idle afterwards, whichever of the three states it
\* was in.
C14_OnlyEquippedAdvances ==
    [][pc = "item" =>
         \A i \in DOMAIN items :
             /\ i \in DOMAIN items'
             /\ ~IsEquippedItem(i) => items'[i] = items[i]
             /\ (IsEquippedItem(i) /\ items[i].state_name \in {IDLE_STATE, RELOAD_STATE, FIRE_STATE})
                  => IF SaturatingAdd(items[i].state_dur, delta) > DwellMillis
                     THEN /\ items'[i].state_name = IDLE_STATE
                          /\ items'[i].state_dur <= DwellMillis
                          /\ ~panicked'
                     ELSE /\ items'[i].state_name = items[i].state_name
                          /\ items'[i].state_dur = SaturatingAdd(items[i].state_dur, delta)]_vars

\* The activity update completed the dwell of the equipped item in slot 0
\* (1500ms + 1000ms), which is idle with 500ms elapsed, and left the item in
\* slot 1 untouched.
C14_Witness ==
    /\ pc = "pickup"
    /\ delta = 1000
    /\ inv[PlayerEnt].equipped_slot = 0
    /\ items[1].state_name = IDLE_STATE
    /\ items[1].state_dur = 500
    /\ items[2].state_dur = 0
    /\ ~panicked


\* Slot s of inventory e refers to an item that cannot be looked up.
StaleSlot(e, s) == inv[e].item_ents[s] # None /\ inv[e].item_ents[s] \notin DOMAIN items

\* C15 as stated: lookup misses are never fatal.  The allocator's scan takes
\* a slot whose item cannot be looked up for a vacant one (the scan for a
\* vacant slot stops at it or before it, the scan for an occupied slot skips
\* it), and the activity update skips an item whose owning inventory cannot
\* be looked up: the item is unchanged and the tick does not fail.
C15_LookupMissNotFatal ==
    [][/\ pc = "pickup" =>
            \A e \in InvEnts, s \in Slots :
                StaleSlot(e, s) =>
                    /\ FindSlot(inv[e], items, IsNone) \in 0 .. s
                    /\ FindSlot(inv[e], items, IsSome) # s
       /\ pc = "item" =>
            /\ ~panicked'
            /\ \A i \in DOMAIN items :
                   items[i].inv_ent \notin InvEnts =>
                       i \in DOMAIN items' /\ items'[i] = items[i]]_vars


\* C16: force-unequip step.  At the start of an equip tick the machine is set
\* to Unequipping with elapsed 0 exactly when the wanted slot is present,
\* populated, different from the equipped slot, and the state is not already
\* Unequipping; otherwise the step changes nothing.  In particular a request
\* arriving in Unequipping does not reset the timer: a tick that does not
\* complete the dwell ends in Unequipping with the tick's delta added.
C16_ForceUnequip ==
    pc = "equip" =>
        \A e \in InvEnts, w \in Slots \cup {None} :
            LET before == inv[e]
                forced == /\ w # None
                          /\ before.item_ents[w] # None
                          /\ w # before.equipped_slot
                          /\ before.equip_state_name # UNEQUIPPING_STATE
                after == HandleUnequip(before, w)
                end == EquipBody(before, w, delta, items).self
            IN  /\ forced => after = [before EXCEPT !.equip_state_name = UNEQUIPPING_STATE,
                                                    !.equip_state_dur = 0]
                /\ ~forced => after = before
                /\ (/\ before.equip_state_name = UNEQUIPPING_STATE
                    /\ before.equip_state_dur + delta <= DwellMillis)
                   => /\ end.equip_state_name = UNEQUIPPING_STATE
                      /\ end.equip_state_dur = before.equip_state_dur + delta
                      /\ end.equipped_slot = before.equipped_slot

\* The machine has spent two ticks of 1000ms in Unequipping without the
\* timer being reset.
C16_Witness ==
    /\ pc = "item"
    /\ delta = 1000
    /\ inv[PlayerEnt].equip_state_name = UNEQUIPPING_STATE
    /\ inv[PlayerEnt].equip_state_dur = 2000


\* C17 as stated: whenever an equip tick completes an Unequipping dwell and
\* selects the next slot (the loop body runs to its end), the machine ends
\* the tick in Equipping with elapsed 0, for every delta.
C17_EquippingStartsAtZero ==
    pc = "equip" =>
        \A e \in InvEnts, w \in Slots \cup {None} :
            LET r == EquipBody(inv[e], w, delta, items)
            IN  ~r.returned =>
                    /\ r.self.equip_state_name = EQUIPPING_STATE
                    /\ r.self.equip_state_dur = 0


\* C18 as stated: whenever an equip tick changes the equipped slot from a
\* slot a to a different slot b, chosen from a valid wanted slot or by the
\* replacement policy, prev_equipped_slot is a afterwards.
C18_PrevTracksPrevious ==
    pc = "equip" =>
        \A e \in InvEnts, w \in Slots \cup {None} :
            LET after == EquipBody(inv[e], w, delta, items).self
            IN  (/\ inv[e].equipped_slot # None
                 /\ after.equipped_slot # None
                 /\ after.equipped_slot # inv[e].equipped_slot)
                => after.prev_equipped_slot = inv[e].equipped_slot


\* The equip system is about to complete the Unequipping dwell of inventory
\* e, whose previously equipped slot is set.
C19Case(e) ==
    /\ pc = "equip"
    /\ inv[e].equipped_slot # None
    /\ inv[e].prev_equipped_slot # None
    /\ inv[e].equip_state_name = UNEQUIPPING_STATE
    /\ SaturatingAdd(inv[e].equip_state_dur, delta) > DwellMillis

\* C19: when the Unequipping dwell completes in a tick whose wanted slot is
\* absent or vacant and prev_equipped_slot is set, the machine re-equips
\* exactly prev_equipped_slot (also when a lower slot is occupied), enters
\* Equipping, and that slot is occupied.
C19_RestoresPrevious ==
    \A e \in InvEnts :
        C19Case(e) =>
            \A w \in Slots \cup {None} :
                (w = None \/ inv[e].item_ents[w] = None) =>
                    LET after == EquipBody(inv[e], w, delta, items).self
                    IN  /\ after.equipped_slot = inv[e].prev_equipped_slot
                        /\ after.equip_state_name = EQUIPPING_STATE
                        /\ after.item_ents[after.equipped_slot] # None
                        /\ after.item_ents = inv[e].item_ents

\* Such a tick is about to run on an inventory whose previous slot (1) is
\* not its first occupied slot (0).
C19_Witness ==
    /\ C19Case(PlayerEnt)
    /\ inv[PlayerEnt].equipped_slot = 0
    /\ inv[PlayerEnt].prev_equipped_slot = 1


\* C20: Equipped is stable.  From Equipped, an equip tick of any delta whose
\* wanted slot is absent, vacant or the equipped slot itself leaves the state
\* Equipped and the equipped slot unchanged, for every iteration order; and
\* resolving a pickup in Equipped changes neither the state nor the equipped
\* slot.
C20_EquippedStable ==
    \A e \in InvEnts :
        inv[e].equip_state_name = EQUIPPED_STATE =>
            /\ pc = "equip" =>
                 \A wanted \in WantedInputs, order \in Orders(InvEnts) :
                     NoChangeWanted(inv[e], wanted[e]) =>
                         LET after == EquipIter(inv, order, wanted, delta, items)[e]
                         IN  /\ after.equip_state_name = EQUIPPED_STATE
                             /\ after.equipped_slot = inv[e].equipped_slot
            /\ pc = "pickup" =>
                 \A ent1, ent2 \in Colliders :
                     LET after == ResolveEvent(ent1, ent2, inv, CurCommands,
                                               items, pickups).invs[e]
                     IN  /\ after.equip_state_name = EQUIPPED_STATE
                         /\ after.equipped_slot = inv[e].equipped_slot

\* The machine was in Equipped with 1000ms elapsed, a further tick of 1000ms
\* ran on it, a pickup was resolved in that tick, and it is still in Equipped
\* on slot 0.
C20_Witness ==
    /\ pc = "apply"
    /\ delta = 1000
    /\ inv[PlayerEnt].equip_state_name = EQUIPPED_STATE
    /\ inv[PlayerEnt].equip_state_dur = 2000
    /\ inv[PlayerEnt].equipped_slot = 0
    /\ Spawns(cmds) # {}


\* The slots of inventory e that hold no item reference.
VacantSlots(e) == {s \in Slots : inv[e].item_ents[s] = None}

\* C21 as stated: insert_item places the new item in the lowest-index vacant
\* slot and leaves every other slot unchanged; if the inventory already has an
\* equipped slot, the insert leaves equipped_slot, prev_equipped_slot, the
\* equip state and the equip timer unchanged.
C21_InsertLowestVacant ==
    pc = "pickup" =>
        \A e \in InvEnts :
            VacantSlots(e) # {} =>
                LET after == InsertItem(inv[e], e, CurCommands, items, "rifle").self
                    slot == Min(VacantSlots(e))
                IN  /\ after.item_ents[slot] = next_ent
                    /\ \A s \in Slots \ {slot} : after.item_ents[s] = inv[e].item_ents[s]
                    /\ inv[e].equipped_slot # None =>
                         /\ after.equipped_slot = inv[e].equipped_slot
                         /\ after.prev_equipped_slot = inv[e].prev_equipped_slot
                         /\ after.equip_state_name = inv[e].equip_state_name
                         /\ after.equip_state_dur = inv[e].equip_state_dur


\* The live items bound to slot `slot` of owner e in a set of items.
BoundTo(item_set, e, slot) ==
    {i \in DOMAIN item_set : item_set[i].inv_ent = e /\ item_set[i].inv_slot = slot}

\* C22: set_item on a slot that already holds an item destroys that item and
\* binds a fresh one to the slot: once the queued commands are applied the
\* old item is gone and exactly one live item refers to that owner and slot,
\* the new one, which is idle with elapsed 0 and amount 1.
C22_SetItemReplaces ==
    pc = "pickup" =>
        \A e \in InvEnts, slot \in Slots :
            inv[e].item_ents[slot] # None =>
                LET r == SetItem(inv[e], e, CurCommands, "pistol", slot)
                    old == inv[e].item_ents[slot]
                    fresh == r.self.item_ents[slot]
                    world == ApplyQueue([items |-> items, pickups |-> pickups],
                                        r.commands.queue)
                IN  /\ fresh = next_ent
                    /\ fresh # old
                    /\ old \notin DOMAIN world.items
                    /\ BoundTo(world.items, e, slot) = {fresh}
                    /\ world.items[fresh].name = "pistol"
                    /\ world.items[fresh].state_name = IDLE_STATE
                    /\ world.items[fresh].state_dur = 0
                    /\ world.items[fresh].amount = 1

\* set_item ran on a slot that already referred to an item: the despawn of
\* the old item and, right after it, the spawn of the new one are queued, and
\* the slot refers to the new one.
C22_Witness ==
    /\ pc = "apply"
    /\ \E k \in DOMAIN cmds :
           /\ cmds[k].op = "despawn"
           /\ k + 1 \in Spawns(cmds)
           /\ inv[PlayerEnt].item_ents[cmds[k + 1].item.inv_slot] = cmds[k + 1].ent


\* The event (a, b) names one live pickup and one inventory owner.
PickupMeetsOwner(a, b) ==
    \/ a \in pickups /\ b \in InvEnts
    \/ b \in pickups /\ a \in InvEnts

\* C23: pickup resolution is order-independent and selective.  Resolving the
\* event (a, b) gives the same inventories and the same queued commands as
\* resolving (b, a); and an event that does not name one live pickup and one
\* inventory owner (two pickups, two owners, an unrelated entity) changes no
\* inventory and queues no command, so it creates no item and destroys no
\* pickup.
C23_OrderIndependentSelective ==
    pc = "pickup" =>
        \A a, b \in Colliders :
            LET r == ResolveEvent(a, b, inv, CurCommands, items, pickups)
            IN  /\ r = ResolveEvent(b, a, inv, CurCommands, items, pickups)
                /\ PickupMeetsOwner(a, b) =>
                       /\ Resolved(r.commands.queue) = Resolved(cmds) + 1
                       /\ \A e \in InvEnts \ {a, b} : r.invs[e] = inv[e]
                /\ ~PickupMeetsOwner(a, b) =>
                       /\ r.invs = inv
                       /\ r.commands = CurCommands

\* A pickup was resolved for the second inventory owner, which auto-equipped
\* the item, while the player's inventory is as it was built.
C23_Witness ==
    /\ pc = "apply"
    /\ OtherPlayerEnt \in InvEnts
    /\ Resolved(cmds) = 1
    /\ inv[OtherPlayerEnt].item_ents[0] # None
    /\ inv[PlayerEnt].item_ents = BuiltInventory({0}).item_ents


\* C24: the dwell catch-up loops terminate and drain the timers.  No tick
\* fails, whatever its delta (the largest Duration included, which makes the
\* accumulation saturate); the accumulated time never exceeds the largest
\* Duration; and at every tick boundary the equip timer of every inventory
\* and the activity timer of every item lie between 0 and the dwell time
\* (2000ms).
C24_TimersDrained ==
    /\ ~panicked
    /\ pc = "equip" =>
           \A e \in InvEnts :
               SaturatingAdd(inv[e].equip_state_dur, delta) \in 0 .. DurationMax
    /\ pc = "item" =>
           \A i \in DOMAIN items :
               SaturatingAdd(items[i].state_dur, delta) \in 0 .. DurationMax
    /\ pc = "time" =>
           /\ \A e \in InvEnts : inv[e].equip_state_dur \in 0 .. DwellMillis
           /\ \A i \in DOMAIN items : items[i].state_dur \in 0 .. DwellMillis

\* A tick of the largest Duration: the equip update has drained the equip
\* timer to 2000ms, and the activity update is about to add the delta to an
\* equipped item whose timer already holds 1000ms (the sum saturates).
C24_Witness ==
    /\ pc = "item"
    /\ delta = DurationMax
    /\ inv[PlayerEnt].equip_state_dur = DwellMillis
    /\ \E i \in DOMAIN items :
           /\ IsEquippedItem(i)
           /\ items[i].state_dur = 1000


\* C25: liveness of a held slot request.  With a single inventory whose
\* wanted slot is constantly the populated slot HeldSlot, different from the
\* equipped slot, and frames of positive length recurring, the machine
\* eventually has HeldSlot equipped in state Equipped, and stays there.  On
\* the way the equipped slot changes only in a tick that was in, or was forced
\* into, Unequipping, and that tick ends in Equipping; Equipped is entered
\* only from Equipping.
C25_HeldRequestServed ==
    /\ [][/\ inv'[PlayerEnt].equipped_slot # inv[PlayerEnt].equipped_slot =>
               /\ HandleUnequip(inv[PlayerEnt], HeldSlot).equip_state_name
                      = UNEQUIPPING_STATE
               /\ inv'[PlayerEnt].equipped_slot = HeldSlot
               /\ inv'[PlayerEnt].equip_state_name = EQUIPPING_STATE
          /\ (/\ inv'[PlayerEnt].equip_state_name = EQUIPPED_STATE
              /\ inv[PlayerEnt].equip_state_name # EQUIPPED_STATE) =>
               inv[PlayerEnt].equip_state_name = EQUIPPING_STATE]_vars
    /\ <>[](/\ inv[PlayerEnt].equipped_slot = HeldSlot
            /\ inv[PlayerEnt].equip_state_name = EQUIPPED_STATE)

\* The held slot has been drawn: it is equipped, in Equipped, and the slot
\* equipped before is the previous slot.
C25_Witness ==
    /\ inv[PlayerEnt].equipped_slot = HeldSlot
    /\ inv[PlayerEnt].prev_equipped_slot = 0
    /\ inv[PlayerEnt].equip_state_name = EQUIPPED_STATE

====
